---- MODULE Spec2Model ----
(***************************************************************************)
(* Model of aurora_cost_analysis.py: the catalog listing, the CloudWatch   *)
(* metric fetchers, the two reducers, the identifier masker and main().    *)
(*                                                                         *)
(* Numbers.  A CloudWatch statistic is a float.  A sample value is carried *)
(* as an integer count of halves (value = h / 2), so that int() truncates  *)
(* something.  A GB figure rounded to two decimals is carried as an        *)
(* integer count of hundredths of a GB.  The sentinel "N/A" and a number   *)
(* share one record shape, [na, v].                                        *)
(***************************************************************************)
EXTENDS Integers, Sequences, FiniteSets, TLC

\* ------------------------------------------------------------------ bounds
MaxSamples == 3
MaxInstances == 3

\* ------------------------------------------------------------ number model
NA == [na |-> TRUE, v |-> 0]
Num(x) == [na |-> FALSE, v |-> x]

\* int(x) of a non-negative float carried in halves
Trunc(h) == h \div 2

GiB == 1024 * 1024 * 1024

\* n / d rounded to the nearest integer, ties to the even one (Python round)
RoundHalfEven(n, d) ==
    LET q == n \div d
        r == n % d
    IN  IF 2 * r < d THEN q
        ELSE IF 2 * r > d THEN q + 1
        ELSE IF q % 2 = 0 THEN q ELSE q + 1

\* round(value / (1024**3), 2), in hundredths of a GB; value in halves:
\* (h / 2) / GiB * 100 = h * 50 / GiB
RoundGb(h) == RoundHalfEven(h * 50, GiB)

RECURSIVE SumValues(_)
SumValues(series) ==
    IF series = << >> THEN 0 ELSE series[1][2] + SumValues(Tail(series))

\* ------------------------------------------------------- Identifier masker
Sha256Hex8 ==
    ( "aurora-prod-33549" :> "92dc84bd" @@
      "aurora-prod-95371" :> "92dc84bd" @@
      "orders-db"         :> "2adfdbb6" @@
      "inst-1"            :> "81bf9124" @@
      "inst-2"            :> "e7eedb21" @@
      "inst-3"            :> "484fab7e" @@
      "inst-4"            :> "dcf252e9" @@
      "inst-5"            :> "26ebf0a5" )

mask_identifier(identifier) ==
    IF identifier = "" THEN "N/A" ELSE "db-" \o Sha256Hex8[identifier]

\* ----------------------------------------------------------- Metric fetcher
\* sorted(datapoints, key=Timestamp): a stable insertion sort
RECURSIVE InsertByTimestamp(_, _)
InsertByTimestamp(sorted, point) ==
    IF sorted = << >> THEN << point >>
    ELSE IF point.Timestamp < sorted[1].Timestamp
         THEN << point >> \o sorted
         ELSE << sorted[1] >> \o InsertByTimestamp(Tail(sorted), point)

RECURSIVE SortByTimestamp(_)
SortByTimestamp(datapoints) ==
    IF datapoints = << >> THEN << >>
    ELSE InsertByTimestamp(
             SortByTimestamp(SubSeq(datapoints, 1, Len(datapoints) - 1)),
             datapoints[Len(datapoints)])

\* the datapoints in the order received
SeriesOf_unsorted(datapoints) ==
    [i \in 1..Len(datapoints) |-> << datapoints[i].Timestamp, datapoints[i].Stat >>]

\* the body of the try block of get_metric_data / get_cluster_metric_data
SeriesOf(datapoints) ==
    IF datapoints # << >>
    THEN LET sorted_datapoints == SortByTimestamp(datapoints)
         IN  [i \in 1..Len(sorted_datapoints) |->
                 << sorted_datapoints[i].Timestamp, sorted_datapoints[i].Stat >>]
    ELSE << >>

\* an outcome of one get_metric_statistics call: a response, a ClientError,
\* or an exception of another class
get_metric_data(outcome) ==
    IF outcome.kind = "ClientError" THEN << >> ELSE SeriesOf(outcome.datapoints)

get_cluster_metric_data(outcome) ==
    IF outcome.kind = "ClientError" THEN << >> ELSE SeriesOf(outcome.datapoints)

\* --------------------------------------------------------- Statistic reducer
\* the mean over a fixed 30 days
calculate_write_io_stats_per_30(write_io_data) ==
    IF write_io_data = << >> THEN << 0, 0 >>
    ELSE LET total_write_io == SumValues(write_io_data)
         IN  << Trunc(total_write_io), total_write_io \div (2 * 30) >>

calculate_write_io_stats(write_io_data) ==
    IF write_io_data = << >> THEN << 0, 0 >>
    ELSE LET total_write_io == SumValues(write_io_data)
         IN  << Trunc(total_write_io),
                total_write_io \div (2 * Len(write_io_data)) >>

calculate_storage_growth(volume_bytes_data) ==
    IF Len(volume_bytes_data) < 2 THEN << NA, NA, NA, NA >>
    ELSE LET first_value == volume_bytes_data[1][2]
             last_value == volume_bytes_data[Len(volume_bytes_data)][2]
         IN  << Num(Trunc(first_value)), Num(RoundGb(first_value)),
                Num(Trunc(last_value)), Num(RoundGb(last_value)) >>

\* ------------------------------------------------------- the provider's side
\* What the RDS API holds in the region during the run.  Cluster identifiers
\* come in the order the API lists them; the first two have the same first
\* eight hex digits of SHA-256.
AllClusterIds == << "aurora-prod-33549", "aurora-prod-95371", "orders-db" >>

EngineOfCluster ==
    ( "aurora-prod-33549" :> "aurora-mysql" @@
      "aurora-prod-95371" :> "aurora-postgresql" @@
      "orders-db"         :> "mysql" )

SecretArnOfCluster ==
    ( "aurora-prod-33549" :> "arn:secret:prod" @@
      "aurora-prod-95371" :> "" @@
      "orders-db"         :> "" )

AllInstanceIds == << "inst-1", "inst-2", "inst-3", "inst-4", "inst-5" >>

DBCluster(id) ==
    [DBClusterIdentifier |-> id,
     Engine |-> EngineOfCluster[id],
     EngineVersion |-> "8.0",
     MasterUserSecret |-> SecretArnOfCluster[id]]

DBInstance(k, cluster_id) ==
    [DBInstanceIdentifier |-> AllInstanceIds[k],
     DBClusterIdentifier |-> cluster_id,
     Engine |-> IF cluster_id = "" THEN "mysql" ELSE EngineOfCluster[cluster_id],
     EngineVersion |-> "8.0",
     DBInstanceClass |-> "db.r5.large",
     MasterUserSecret |-> ""]

\* the subsequences of AllClusterIds
ClusterListings ==
    LET n == Len(AllClusterIds)
        Picks == SUBSET (1..n)
        Nth(S, j) == CHOOSE i \in S : Cardinality({ x \in S : x < i }) = j - 1
    IN  { [j \in 1..Cardinality(S) |-> DBCluster(AllClusterIds[Nth(S, j)])] : S \in Picks }

\* Up to MaxInstances instances.  Instance names are labels, so they are
\* given in the order of their affiliation: members of the first listed
\* cluster, of the second, ..., then the instances of no cluster.
InstanceListings(clusters) ==
    LET k == Len(clusters)
        Affil(j) == IF j <= k THEN clusters[j].DBClusterIdentifier ELSE ""
        Maps == UNION { { f \in [1..n -> 1..(k + 1)] :
                            \A a, b \in 1..n : a < b => f[a] <= f[b] } : n \in 0..MaxInstances }
    IN  { [i \in DOMAIN f |-> DBInstance(i, Affil(f[i]))] : f \in Maps }

\* ---------------------------------------------------------------- API calls
ApiKinds == { "ok", "ClientError", "Error" }

Outcome(kind, datapoints) == [kind |-> kind, datapoints |-> datapoints]

Point(t, x) == [Timestamp |-> t, Stat |-> x]

\* answers of get_metric_statistics to a write-I/O query (Sum, hourly)
IoResponses ==
    { << >>,
      << Point(2, 5), Point(1, 2) >> }

\* answers of get_metric_statistics to VolumeBytesUsed (Average, daily)
VolumeResponses ==
    { << >>,
      << Point(1, 42000000) >>,
      << Point(2, 42000000), Point(1, 6000001) >>,
      << Point(1, 21474836), Point(2, 6000001) >> }

Outcomes(responses) ==
    { Outcome("ok", r) : r \in responses }
        \cup { Outcome("ClientError", << >>), Outcome("Error", << >>) }

\* ------------------------------------------------------------------- state
VARIABLES
    session,        \* boto3.Session(): "raise", or the region_name it holds
    credentials,    \* whether boto3 finds credentials
    DBClusters,     \* what describe_db_clusters holds
    DBInstances,    \* what describe_db_instances holds
    pc,             \* position of main()
    exit_status,    \* process exit status, -1 while running
    aurora_clusters,
    rds_instances,
    cluster_idx,    \* position of the loop over aurora_clusters
    cluster_storage_result,
    instances,      \* members of the current cluster
    instance_idx,   \* position of the loop over instances
    rds_idx,        \* position of the loop over rds_instances
    results,
    csv_file,       \* rows written to the report file, or NoFile
    summary,        \* the printed summary block, or NoSummary
    printed,        \* the last status message printed
    rds_calls,      \* history: RDS API calls attempted
    metric_calls,   \* history: get_metric_statistics calls attempted
    volume_fetches, \* history: cluster id -> VolumeBytesUsed queries
    io_queries,     \* history: instance id -> write-I/O queries, in order
    row_source,     \* history: the cluster and instance behind each row
    listing_failures, \* history: the listing calls that raised
    pin,            \* reducer harness: the datapoints handed in
    pout,           \* reducer harness: the result
    ppc             \* reducer harness: position

mainVars ==
    << session, credentials, DBClusters, DBInstances, pc, exit_status,
       aurora_clusters, rds_instances, cluster_idx, cluster_storage_result,
       instances, instance_idx, rds_idx, results, csv_file, summary, printed,
       rds_calls, metric_calls, volume_fetches, io_queries, row_source,
       listing_failures >>

pureVars == << pin, pout, ppc >>

vars == << mainVars, pureVars >>

None == "<None>"
NoFile == [written |-> FALSE, rows |-> << >>]
NoSummary == [written |-> FALSE]

\* a test for the empty string only
Falsy_empty_string(x) == x = ""

\* `not x` of a string or None
Falsy(x) == x = None \/ x = ""

\* --------------------------------------------------------- Resource catalog
IsAuroraEngine(engine) == engine \in { "aurora-mysql", "aurora-postgresql" }

\* kind: how the describe_db_clusters pagination ended
get_aurora_clusters(kind) ==
    IF kind = "ClientError" THEN << >>
    ELSE LET Keep(cluster) == IsAuroraEngine(cluster.Engine)
             kept == SelectSeq(DBClusters, Keep)
         IN  [i \in 1..Len(kept) |->
                 [identifier |-> kept[i].DBClusterIdentifier,
                  masked_identifier |-> mask_identifier(kept[i].DBClusterIdentifier),
                  engine |-> kept[i].Engine,
                  engine_version |-> kept[i].EngineVersion,
                  uses_secret_manager |-> kept[i].MasterUserSecret # "",
                  secret_arn |-> kept[i].MasterUserSecret,
                  type |-> "Aurora cluster"]]

\* kind: how the describe_db_instances pagination ended
get_rds_instances(kind) ==
    IF kind = "ClientError" THEN << >>
    ELSE LET Keep(instance) == Falsy(instance.DBClusterIdentifier)
             kept == SelectSeq(DBInstances, Keep)
         IN  [i \in 1..Len(kept) |->
                 [identifier |-> kept[i].DBInstanceIdentifier,
                  masked_identifier |-> mask_identifier(kept[i].DBInstanceIdentifier),
                  engine |-> kept[i].Engine,
                  engine_version |-> kept[i].EngineVersion,
                  instance_class |-> kept[i].DBInstanceClass,
                  uses_secret_manager |-> kept[i].MasterUserSecret # "",
                  type |-> "RDS instance"]]

\* DBClusterMembers of a cluster as the API holds them: the first member
\* listed is the writer
ClusterMembersOf(cluster_id) ==
    LET Member(instance) == instance.DBClusterIdentifier = cluster_id
        members == SelectSeq(DBInstances, Member)
        ids == { members[i].DBInstanceIdentifier : i \in 1..Len(members) }
    IN  [id \in ids |->
            IF id = members[1].DBInstanceIdentifier THEN "Writer" ELSE "Reader"]

\* how describe_db_clusters(DBClusterIdentifier=cluster_id) can end: with the
\* members and their roles, with no cluster or member entry, or by raising
LookupOutcomes(cluster_id) ==
    { [kind |-> "ok", cluster_members |-> ClusterMembersOf(cluster_id)],
      [kind |-> "ok", cluster_members |-> << >>],
      [kind |-> "ClientError", cluster_members |-> << >>],
      [kind |-> "Error", cluster_members |-> << >>] }

\* lookup: the end of the membership call; kind: the end of the pagination,
\* which runs only after the membership call returned
get_cluster_instances(lookup, kind, cluster_id) ==
    IF lookup.kind = "ClientError" \/ kind = "ClientError" THEN << >>
    ELSE LET cluster_members == lookup.cluster_members
             Keep(instance) == instance.DBClusterIdentifier = cluster_id
             kept == SelectSeq(DBInstances, Keep)
         IN  [i \in 1..Len(kept) |->
                 [identifier |-> kept[i].DBInstanceIdentifier,
                  masked_identifier |-> mask_identifier(kept[i].DBInstanceIdentifier),
                  instance_class |-> kept[i].DBInstanceClass,
                  engine |-> kept[i].Engine,
                  role |-> IF kept[i].DBInstanceIdentifier \in DOMAIN cluster_members
                           THEN cluster_members[kept[i].DBInstanceIdentifier]
                           ELSE "Unknown"]]

\* ---------------------------------------------------------- Report assembler
\* a retry made whatever the first answer
NeedsFallback_always(write_io_data) == TRUE

\* `if not write_io_data:` before the WriteIOPS retry
NeedsFallback(write_io_data) == write_io_data = << >>

\* a row that carries the cluster's storage only on the writer
ClusterRow_writer_storage(cluster, instance, total_write_io, storage) ==
    [db_type |-> cluster.type,
     name |-> cluster.masked_identifier,
     instance_id |-> instance.masked_identifier,
     role |-> instance.role,
     engine |-> instance.engine,
     instance_class |-> instance.instance_class,
     secret_manager |-> cluster.uses_secret_manager,
     total_write_io |-> total_write_io,
     start_bytes |-> IF instance.role = "Writer" THEN storage[1] ELSE NA,
     start_gb |-> IF instance.role = "Writer" THEN storage[2] ELSE NA,
     end_bytes |-> IF instance.role = "Writer" THEN storage[3] ELSE NA,
     end_gb |-> IF instance.role = "Writer" THEN storage[4] ELSE NA]

ClusterRow(cluster, instance, total_write_io, storage) ==
    [db_type |-> cluster.type,
     name |-> cluster.masked_identifier,
     instance_id |-> instance.masked_identifier,
     role |-> instance.role,
     engine |-> instance.engine,
     instance_class |-> instance.instance_class,
     secret_manager |-> cluster.uses_secret_manager,
     total_write_io |-> total_write_io,
     start_bytes |-> storage[1],
     start_gb |-> storage[2],
     end_bytes |-> storage[3],
     end_gb |-> storage[4]]

RdsRow(rds_instance, total_write_io) ==
    [db_type |-> rds_instance.type,
     name |-> rds_instance.masked_identifier,
     instance_id |-> rds_instance.masked_identifier,
     role |-> "Standalone",
     engine |-> rds_instance.engine,
     instance_class |-> rds_instance.instance_class,
     secret_manager |-> rds_instance.uses_secret_manager,
     total_write_io |-> total_write_io,
     start_bytes |-> NA,
     start_gb |-> NA,
     end_bytes |-> NA,
     end_gb |-> NA]

\* the key a row is deduplicated under
DedupKey(r) == r.name

\* the loop that fills unique_clusters: the first row of a key decides
RECURSIVE UniqueClusters(_, _)
UniqueClusters(rows, unique_clusters) ==
    IF rows = << >> THEN unique_clusters
    ELSE LET r == rows[1]
             growth == IF ~r.start_gb.na /\ ~r.end_gb.na
                       THEN r.end_gb.v - r.start_gb.v
                       ELSE 0
         IN  IF r.db_type = "Aurora cluster" /\ DedupKey(r) \notin DOMAIN unique_clusters
             THEN UniqueClusters(Tail(rows), unique_clusters @@ (DedupKey(r) :> growth))
             ELSE UniqueClusters(Tail(rows), unique_clusters)

RECURSIVE SumOver(_, _)
SumOver(f, keys) ==
    IF keys = {} THEN 0
    ELSE LET k == CHOOSE x \in keys : TRUE
         IN  f[k] + SumOver(f, keys \ {k})

RECURSIVE SumWriteIo(_)
SumWriteIo(rows) ==
    IF rows = << >> THEN 0 ELSE rows[1].total_write_io + SumWriteIo(Tail(rows))

CountType(rows, type) ==
    Cardinality({ i \in 1..Len(rows) : rows[i].db_type = type })

Summary(rows) ==
    LET total_write_io_all == SumWriteIo(rows)
        unique_clusters == UniqueClusters(rows, << >>)
    IN  [written |-> TRUE,
         total_instances |-> Len(rows),
         aurora_instances |-> CountType(rows, "Aurora cluster"),
         rds_instances_count |-> CountType(rows, "RDS instance"),
         total_write_io_all |-> total_write_io_all,
         avg_daily_write_io_all |->
             IF total_write_io_all > 0 THEN total_write_io_all \div 30 ELSE 0,
         total_storage_growth |-> SumOver(unique_clusters, DOMAIN unique_clusters)]

\* ------------------------------------------------------------------ main()
get_current_region == IF session = "raise" THEN None ELSE session

\* where main() goes once the cluster loop stands at position idx
AfterCluster(idx, clusters, standalone) ==
    IF idx <= Len(clusters) THEN "clusters"
    ELSE IF standalone # << >> THEN "rds" ELSE "report"

AfterRds(idx, standalone) ==
    IF idx <= Len(standalone) THEN "rds" ELSE "report"

Query(metric, period, kind, data) ==
    [metric |-> metric, period |-> period, raised |-> kind = "Error",
     empty |-> kind # "Error" /\ data = << >>]

LogQuery(id, q) ==
    IF id \in DOMAIN io_queries
    THEN [io_queries EXCEPT ![id] = Append(@, q)]
    ELSE io_queries @@ (id :> << q >>)

\* the listing calls among `calls` (pairs of call name and outcome kind)
\* that raised, for the cluster they were made for ("" for the catalog)
Failed(calls, cluster_id) ==
    { [call |-> c[1], cluster |-> cluster_id] : c \in { x \in calls : x[2] # "ok" } }

Counted(f, id) == IF id \in DOMAIN f THEN f[id] ELSE 0

Count(f, id) ==
    IF id \in DOMAIN f THEN [f EXCEPT ![id] = @ + 1] ELSE f @@ (id :> 1)

Init ==
    /\ session \in { "raise", None, "us-east-1" }
    /\ credentials \in BOOLEAN
    /\ DBClusters \in ClusterListings
    /\ DBInstances \in InstanceListings(DBClusters)
    /\ pc = "start"
    /\ exit_status = -1
    /\ aurora_clusters = << >>
    /\ rds_instances = << >>
    /\ cluster_idx = 1
    /\ cluster_storage_result = << NA, NA, NA, NA >>
    /\ instances = << >>
    /\ instance_idx = 1
    /\ rds_idx = 1
    /\ results = << >>
    /\ csv_file = NoFile
    /\ summary = NoSummary
    /\ printed = ""
    /\ rds_calls = 0
    /\ metric_calls = 0
    /\ volume_fetches = << >>
    /\ io_queries = << >>
    /\ row_source = << >>
    /\ listing_failures = {}
    /\ pin = << >>
    /\ pout = << >>
    /\ ppc = "idle"

\* lines 210-224: the region, then the two clients
Configure ==
    /\ pc = "start"
    /\ IF Falsy(get_current_region)
       THEN /\ pc' = "exit"
            /\ exit_status' = 1
            /\ printed' = "no region"
       ELSE IF ~credentials
       THEN /\ pc' = "exit"
            /\ exit_status' = 1
            /\ printed' = "no credentials"
       ELSE /\ pc' = "list"
            /\ exit_status' = exit_status
            /\ printed' = "region"
    /\ UNCHANGED << session, credentials, DBClusters, DBInstances,
                    aurora_clusters, rds_instances, cluster_idx,
                    cluster_storage_result, instances, instance_idx, rds_idx,
                    results, csv_file, summary, rds_calls, metric_calls,
                    volume_fetches, io_queries, row_source, listing_failures,
                    pureVars >>

\* lines 233-247: the two listings and the no-resources exit
ListDatabases ==
    /\ pc = "list"
    /\ \E clusters_kind \in ApiKinds, instances_kind \in ApiKinds :
         LET clusters == get_aurora_clusters(clusters_kind)
             standalone == get_rds_instances(instances_kind)
         IN  IF clusters_kind = "Error"
             THEN /\ pc' = "crashed"
                  /\ exit_status' = 1
                  /\ rds_calls' = rds_calls + 1
                  /\ listing_failures' =
                         Failed({ << "describe_db_clusters", clusters_kind >> }, "")
                  /\ UNCHANGED << aurora_clusters, rds_instances, printed >>
             ELSE IF instances_kind = "Error"
             THEN /\ pc' = "crashed"
                  /\ exit_status' = 1
                  /\ rds_calls' = rds_calls + 2
                  /\ listing_failures' =
                         Failed({ << "describe_db_clusters", clusters_kind >>,
                                  << "describe_db_instances", instances_kind >> }, "")
                  /\ aurora_clusters' = clusters
                  /\ UNCHANGED << rds_instances, printed >>
             ELSE /\ rds_calls' = rds_calls + 2
                  /\ listing_failures' =
                         Failed({ << "describe_db_clusters", clusters_kind >>,
                                  << "describe_db_instances", instances_kind >> }, "")
                  /\ aurora_clusters' = clusters
                  /\ rds_instances' = standalone
                  /\ IF clusters = << >> /\ standalone = << >>
                     THEN /\ pc' = "exit"
                          /\ exit_status' = 0
                          /\ printed' = "no resources found"
                     ELSE /\ pc' = AfterCluster(1, clusters, standalone)
                          /\ exit_status' = exit_status
                          /\ printed' = "found"
    /\ UNCHANGED << session, credentials, DBClusters, DBInstances, cluster_idx,
                    cluster_storage_result, instances, instance_idx, rds_idx,
                    results, csv_file, summary, metric_calls, volume_fetches,
                    io_queries, row_source, pureVars >>

\* lines 250-276: one cluster's storage query, its reduction and its members
AnalyzeCluster ==
    /\ pc = "clusters"
    /\ LET cluster == aurora_clusters[cluster_idx]
           cluster_id == cluster.identifier
       IN  \E volume \in Outcomes(VolumeResponses),
              lookup \in LookupOutcomes(cluster_id),
              kind \in ApiKinds :
             LET storage == calculate_storage_growth(get_cluster_metric_data(volume))
                 found == get_cluster_instances(lookup, kind, cluster_id)
             IN  /\ metric_calls' = metric_calls + 1
                 /\ volume_fetches' = Count(volume_fetches, cluster_id)
                 /\ IF volume.kind = "Error"
                    THEN /\ pc' = "crashed"
                         /\ exit_status' = 1
                         /\ UNCHANGED << cluster_storage_result, instances,
                                         instance_idx, cluster_idx, rds_calls,
                                         listing_failures, printed >>
                    ELSE IF lookup.kind = "Error" \/ (lookup.kind = "ok" /\ kind = "Error")
                    THEN /\ pc' = "crashed"
                         /\ exit_status' = 1
                         /\ cluster_storage_result' = storage
                         /\ rds_calls' = rds_calls + (IF lookup.kind = "ok" THEN 2 ELSE 1)
                         /\ listing_failures' = listing_failures \cup
                                (IF lookup.kind = "ok"
                                 THEN Failed({ << "describe_db_instances", kind >> }, cluster_id)
                                 ELSE Failed({ << "describe_db_clusters", lookup.kind >> },
                                             cluster_id))
                         /\ UNCHANGED << instances, instance_idx, cluster_idx, printed >>
                    ELSE /\ cluster_storage_result' = storage
                         /\ rds_calls' = rds_calls + (IF lookup.kind = "ok" THEN 2 ELSE 1)
                         /\ listing_failures' = listing_failures \cup
                                (IF lookup.kind = "ok"
                                 THEN Failed({ << "describe_db_instances", kind >> }, cluster_id)
                                 ELSE Failed({ << "describe_db_clusters", lookup.kind >> },
                                             cluster_id))
                         /\ instances' = found
                         /\ instance_idx' = 1
                         /\ exit_status' = exit_status
                         /\ IF found = << >>
                            THEN /\ cluster_idx' = cluster_idx + 1
                                 /\ pc' = AfterCluster(cluster_idx + 1, aurora_clusters,
                                                       rds_instances)
                                 /\ printed' = "no instances in cluster"
                            ELSE /\ cluster_idx' = cluster_idx
                                 /\ pc' = "instances"
                                 /\ printed' = printed
    /\ UNCHANGED << session, credentials, DBClusters, DBInstances,
                    aurora_clusters, rds_instances, rds_idx, results, csv_file,
                    summary, io_queries, row_source, pureVars >>

\* lines 278-325: one member instance's write-I/O queries and its row
AnalyzeClusterInstance ==
    /\ pc = "instances"
    /\ LET cluster == aurora_clusters[cluster_idx]
           instance == instances[instance_idx]
           instance_id == instance.identifier
       IN  \E primary \in Outcomes(IoResponses), secondary \in Outcomes(IoResponses) :
             LET first_data == get_metric_data(primary)
                 first_query == Query("VolumeWriteIOPS", 3600, primary.kind, first_data)
                 second_data == get_metric_data(secondary)
                 second_query == Query("WriteIOPS", 3600, secondary.kind, second_data)
                 retried == NeedsFallback(first_data)
                 write_io_data == IF retried THEN second_data ELSE first_data
                 stats == calculate_write_io_stats(write_io_data)
             IN  IF primary.kind = "Error"
                 THEN /\ pc' = "crashed"
                      /\ exit_status' = 1
                      /\ metric_calls' = metric_calls + 1
                      /\ io_queries' = LogQuery(instance_id, first_query)
                      /\ UNCHANGED << results, row_source, instance_idx, cluster_idx >>
                 ELSE IF retried /\ secondary.kind = "Error"
                 THEN /\ pc' = "crashed"
                      /\ exit_status' = 1
                      /\ metric_calls' = metric_calls + 2
                      /\ io_queries' = io_queries @@
                                         (instance_id :> << first_query, second_query >>)
                      /\ UNCHANGED << results, row_source, instance_idx, cluster_idx >>
                 ELSE /\ metric_calls' = metric_calls + (IF retried THEN 2 ELSE 1)
                      /\ io_queries' = io_queries @@
                                         (instance_id :>
                                            IF retried THEN << first_query, second_query >>
                                            ELSE << first_query >>)
                      /\ results' = Append(results,
                                        ClusterRow(cluster, instance, stats[1],
                                                   cluster_storage_result))
                      /\ row_source' = Append(row_source,
                                           [cluster |-> cluster.identifier,
                                            instance |-> instance_id])
                      /\ exit_status' = exit_status
                      /\ IF instance_idx < Len(instances)
                         THEN /\ instance_idx' = instance_idx + 1
                              /\ cluster_idx' = cluster_idx
                              /\ pc' = "instances"
                         ELSE /\ instance_idx' = instance_idx
                              /\ cluster_idx' = cluster_idx + 1
                              /\ pc' = AfterCluster(cluster_idx + 1, aurora_clusters,
                                                    rds_instances)
    /\ UNCHANGED << session, credentials, DBClusters, DBInstances,
                    aurora_clusters, rds_instances, cluster_storage_result,
                    instances, rds_idx, csv_file, summary, printed, rds_calls,
                    volume_fetches, listing_failures, pureVars >>

\* lines 328-379: one standalone instance's queries and its row
AnalyzeRdsInstance ==
    /\ pc = "rds"
    /\ LET rds_instance == rds_instances[rds_idx]
           instance_id == rds_instance.identifier
       IN  \E write_io \in Outcomes(IoResponses), free_kind \in ApiKinds :
             LET write_io_data == get_metric_data(write_io)
                 stats == calculate_write_io_stats(write_io_data)
                 query == Query("WriteIOPS", 3600, write_io.kind, write_io_data)
             IN  /\ io_queries' = LogQuery(instance_id, query)
                 /\ IF write_io.kind = "Error"
                    THEN /\ pc' = "crashed"
                         /\ exit_status' = 1
                         /\ metric_calls' = metric_calls + 1
                         /\ UNCHANGED << results, row_source, rds_idx >>
                    ELSE IF free_kind = "Error"
                    THEN /\ pc' = "crashed"
                         /\ exit_status' = 1
                         /\ metric_calls' = metric_calls + 2
                         /\ UNCHANGED << results, row_source, rds_idx >>
                    ELSE /\ metric_calls' = metric_calls + 2
                         /\ results' = Append(results, RdsRow(rds_instance, stats[1]))
                         /\ row_source' = Append(row_source,
                                              [cluster |-> "", instance |-> instance_id])
                         /\ rds_idx' = rds_idx + 1
                         /\ pc' = AfterRds(rds_idx + 1, rds_instances)
                         /\ exit_status' = exit_status
    /\ UNCHANGED << session, credentials, DBClusters, DBInstances,
                    aurora_clusters, rds_instances, cluster_idx,
                    cluster_storage_result, instances, instance_idx, csv_file,
                    summary, printed, rds_calls, volume_fetches, listing_failures,
                    pureVars >>

\* `if results:` before the report file is opened
WritesFile(rows) == rows # << >>

\* lines 381-456: the report file and the summary
SaveReport ==
    /\ pc = "report"
    /\ IF WritesFile(results)
       THEN /\ csv_file' = [written |-> TRUE, rows |-> results]
            /\ summary' = Summary(results)
            /\ printed' = "saved"
       ELSE /\ csv_file' = csv_file
            /\ summary' = summary
            /\ printed' = "no instance data"
    /\ pc' = "exit"
    /\ exit_status' = 0
    /\ UNCHANGED << session, credentials, DBClusters, DBInstances,
                    aurora_clusters, rds_instances, cluster_idx,
                    cluster_storage_result, instances, instance_idx, rds_idx,
                    results, rds_calls, metric_calls, volume_fetches,
                    io_queries, row_source, listing_failures, pureVars >>

Next ==
    \/ Configure
    \/ ListDatabases
    \/ AnalyzeCluster
    \/ AnalyzeClusterInstance
    \/ AnalyzeRdsInstance
    \/ SaveReport

Spec == Init /\ [][Next]_vars

\* ---------------------------------------------------------- reducer harness
\* One get_metric_statistics answer, fetched and reduced: every list of at
\* most MaxSamples datapoints with distinct timestamps, in any order.
SampleValues == { 5, 21474836, 42000000 }

DatapointLists ==
    UNION { { [i \in 1..n |-> Point(ts[i], xs[i])] :
                ts \in { f \in [1..n -> 1..MaxSamples] :
                           \A a, b \in 1..n : a # b => f[a] # f[b] },
                xs \in [1..n -> SampleValues] } : n \in 0..MaxSamples }

MainIdle ==
    /\ session = None
    /\ credentials = FALSE
    /\ DBClusters = << >>
    /\ DBInstances = << >>
    /\ pc = "idle"
    /\ exit_status = -1
    /\ aurora_clusters = << >>
    /\ rds_instances = << >>
    /\ cluster_idx = 1
    /\ cluster_storage_result = << NA, NA, NA, NA >>
    /\ instances = << >>
    /\ instance_idx = 1
    /\ rds_idx = 1
    /\ results = << >>
    /\ csv_file = NoFile
    /\ summary = NoSummary
    /\ printed = ""
    /\ rds_calls = 0
    /\ metric_calls = 0
    /\ volume_fetches = << >>
    /\ io_queries = << >>
    /\ row_source = << >>
    /\ listing_failures = {}

InitReduce ==
    /\ MainIdle
    /\ pin \in { Outcome("ok", d) : d \in DatapointLists }
                 \cup { Outcome("ClientError", << >>) }
    /\ pout = << >>
    /\ ppc = "fetched"

\* lines 264-269: get_cluster_metric_data, then calculate_storage_growth
ReduceStorage ==
    /\ ppc = "fetched"
    /\ pout' = calculate_storage_growth(get_cluster_metric_data(pin))
    /\ ppc' = "storage"
    /\ UNCHANGED << pin, mainVars >>

\* lines 341-346: get_metric_data, then calculate_write_io_stats
ReduceWriteIo ==
    /\ ppc = "fetched"
    /\ pout' = calculate_write_io_stats(get_metric_data(pin))
    /\ ppc' = "write_io"
    /\ UNCHANGED << pin, mainVars >>

NextReduce == ReduceStorage \/ ReduceWriteIo

SpecReduce == InitReduce /\ [][NextReduce]_vars

\* ------------------------------------------------------------------ claims
\* the datapoint of a non-empty answer with the smallest / largest timestamp
Earliest(datapoints) ==
    CHOOSE p \in { datapoints[i] : i \in 1..Len(datapoints) } :
        \A i \in 1..Len(datapoints) : p.Timestamp <= datapoints[i].Timestamp

Latest(datapoints) ==
    CHOOSE p \in { datapoints[i] : i \in 1..Len(datapoints) } :
        \A i \in 1..Len(datapoints) : p.Timestamp >= datapoints[i].Timestamp

RECURSIVE SumStat(_)
SumStat(datapoints) ==
    IF datapoints = << >> THEN 0 ELSE datapoints[1].Stat + SumStat(Tail(datapoints))

\* C2: a storage answer of fewer than 2 samples reduces to "N/A" in all four
\* fields; one of 2 or more samples reduces to the value (as an integer number
\* of bytes) of the sample with the smallest timestamp as start and of the
\* sample with the largest timestamp as end, whatever the order of the answer.
C2_StorageFirstLastByTimestamp ==
    ppc = "storage" =>
        IF Len(pin.datapoints) < 2
        THEN pout = << NA, NA, NA, NA >>
        ELSE /\ pout[1] = Num(Earliest(pin.datapoints).Stat \div 2)
             /\ pout[3] = Num(Latest(pin.datapoints).Stat \div 2)

\* an answer that arrives latest-first, whose earliest sample is neither the
\* smallest nor the largest value, has been reduced
C2_Witness ==
    /\ ppc = "storage"
    /\ Len(pin.datapoints) = 3
    /\ pin.datapoints[1].Timestamp = 3
    /\ pin.datapoints[3].Timestamp = 1
    /\ pin.datapoints[3].Stat = 21474836
    /\ pin.datapoints[1].Stat = 5
    /\ pin.datapoints[2].Stat = 42000000
    /\ pout[1] = Num(10737418)
    /\ pout[3] = Num(2)

\* C3: a non-empty throughput series reduces to the sum of its values and to
\* that sum divided by the number of samples, both truncated to integers; the
\* empty series reduces to (0, 0).
C3_WriteIoSumAndMean ==
    ppc = "write_io" =>
        IF pin.datapoints = << >>
        THEN pout = << 0, 0 >>
        ELSE /\ pout[1] = SumStat(pin.datapoints) \div 2
             /\ pout[2] = SumStat(pin.datapoints) \div (2 * Len(pin.datapoints))

\* two samples of 2.5 and 21000000: total 21000002, mean 10500001
C3_Witness ==
    /\ ppc = "write_io"
    /\ Len(pin.datapoints) = 2
    /\ SumStat(pin.datapoints) = 42000005
    /\ pout = << 21000002, 10500001 >>

\* ------------------------------------------------------ claims about main()
Terminated == pc \in { "exit", "crashed" }

\* the session holds a region and boto3 finds credentials
Configured == session \notin { "raise", None, "" } /\ credentials

RowsOfCluster(cluster_id) ==
    { i \in 1..Len(results) : row_source[i].cluster = cluster_id }

RowsOfInstance(instance_id) ==
    { i \in 1..Len(results) : row_source[i].instance = instance_id }

ClustersWithRows == { row_source[i].cluster : i \in 1..Len(row_source) } \ { "" }

\* end GB - start GB of a cluster, read off one of its rows (0 when unknown)
GrowthOfCluster(cluster_id) ==
    LET r == results[CHOOSE i \in RowsOfCluster(cluster_id) : TRUE]
    IN  IF r.start_gb.na \/ r.end_gb.na THEN 0 ELSE r.end_gb.v - r.start_gb.v

RECURSIVE SumGrowth(_)
SumGrowth(clusters) ==
    IF clusters = {} THEN 0
    ELSE LET c == CHOOSE x \in clusters : TRUE
         IN  GrowthOfCluster(c) + SumGrowth(clusters \ {c})

\* C1: in a run that prints a summary, the storage-growth total is the sum,
\* over the distinct clusters that have a row, of the cluster's end GB minus
\* start GB, each cluster once, whatever display name its rows carry.
C1_GrowthOncePerCluster ==
    summary.written => summary.total_storage_growth = SumGrowth(ClustersWithRows)

MembersListed(cluster_id) ==
    { DBInstances[i].DBInstanceIdentifier :
        i \in { j \in 1..Len(DBInstances) :
                  DBInstances[j].DBClusterIdentifier = cluster_id } }

IsClusterMember(instance_id) ==
    \E i \in 1..Len(DBInstances) :
        /\ DBInstances[i].DBInstanceIdentifier = instance_id
        /\ DBInstances[i].DBClusterIdentifier # ""

FallbackPolicy(q) ==
    /\ q[1].metric = "VolumeWriteIOPS"
    /\ Len(q) <= 2
    /\ Len(q) = 2 <=> q[1].empty
    /\ Len(q) = 2 => q[2].metric = "WriteIOPS" /\ q[2].period = q[1].period

ZeroWhenEmpty(instance_id) ==
    LET q == io_queries[instance_id]
    IN  (~q[Len(q)].raised /\ q[Len(q)].empty) =>
            \A i \in RowsOfInstance(instance_id) : results[i].total_write_io = 0

C5_NoFailureAbortsRun == pc = "crashed" => metric_calls = 0

\* C6: when the membership lookup of a cluster fails, the members of the
\* cluster are still listed, with role "Unknown", and get their rows.
C6_LookupFailureKeepsMembers ==
    (pc = "exit" /\ exit_status = 0) =>
        \A f \in listing_failures :
            (f.call = "describe_db_clusters" /\ f.cluster # "") =>
                \A m \in MembersListed(f.cluster) :
                    \E i \in RowsOfInstance(m) : results[i].role = "Unknown"

\* C7: in a configured run the report file is written exactly when the row
\* set is non-empty; when nothing is found the run prints the no-resources
\* message, exits 0, makes no metric query and writes no file.
C7_FileIffRows ==
    (Terminated /\ Configured) =>
        /\ csv_file.written <=> results # << >>
        /\ (pc = "exit" /\ aurora_clusters = << >> /\ rds_instances = << >>) =>
               /\ printed = "no resources found"
               /\ exit_status = 0
               /\ metric_calls = 0
               /\ ~csv_file.written

StorageFields(r) == << r.start_bytes, r.start_gb, r.end_bytes, r.end_gb >>

\* C9: VolumeBytesUsed is queried once for a cluster, not once per instance;
\* two rows of one cluster carry the same four storage fields; a standalone
\* row carries "N/A" in all four.
C9_ClusterStorageBroadcast ==
    /\ \A c \in DOMAIN volume_fetches : volume_fetches[c] = 1
    /\ \A c \in ClustersWithRows : Counted(volume_fetches, c) = 1
    /\ pc = "exit" =>
           \A k \in 1..Len(aurora_clusters) :
               Counted(volume_fetches, aurora_clusters[k].identifier) = 1
    /\ \A i, j \in 1..Len(results) :
           (row_source[i].cluster # "" /\ row_source[i].cluster = row_source[j].cluster)
               => StorageFields(results[i]) = StorageFields(results[j])
    /\ \A i \in 1..Len(results) :
           row_source[i].cluster = "" =>
               StorageFields(results[i]) = << NA, NA, NA, NA >>

\* two rows of one cluster with known storage, the rows of a second cluster,
\* and a standalone row
C9_Witness ==
    /\ pc = "exit"
    /\ \E i, j \in 1..Len(results) :
         /\ i # j
         /\ row_source[i].cluster # ""
         /\ row_source[i].cluster = row_source[j].cluster
         /\ ~results[i].end_gb.na
    /\ \E i \in 1..Len(results) : row_source[i].cluster = ""

\* the instances that are to have a row: the members of a listed Aurora
\* cluster and the instances of no cluster
Reportable ==
    { DBInstances[i].DBInstanceIdentifier :
        i \in { j \in 1..Len(DBInstances) :
                  \/ DBInstances[j].DBClusterIdentifier = ""
                  \/ \E k \in 1..Len(DBClusters) :
                       /\ DBClusters[k].DBClusterIdentifier =
                              DBInstances[j].DBClusterIdentifier
                       /\ IsAuroraEngine(DBClusters[k].Engine) } }

\* C10: when no listing call fails, every such instance has exactly one row,
\* no instance has two, and the total count of the summary is the sum of its
\* two partial counts.
C10_OneRowPerInstance ==
    /\ \A id \in { row_source[i].instance : i \in 1..Len(row_source) } :
           Cardinality(RowsOfInstance(id)) = 1
    /\ summary.written =>
           summary.total_instances =
               summary.aurora_instances + summary.rds_instances_count
    /\ (Terminated /\ Configured /\ listing_failures = {}) =>
           \A id \in Reportable : Cardinality(RowsOfInstance(id)) = 1

====
